---- MODULE Spec2Model ----
(***************************************************************************)
(* Verification model of consul-replicate's configuration layer            *)
(* (config.go): the optional-field Config value model (Copy, Merge,        *)
(* Finalize), the Parse pipeline (decode, flattenKeys, legacy key          *)
(* promotion, bind) and the FromPath source aggregator.                    *)
(*                                                                         *)
(* Four specifications share the module's variables:                       *)
(*   SpecValue   - Copy / Merge / Finalize over a pointer heap             *)
(*   SpecLoad    - FromPath on a path of any kind                          *)
(*   SpecParse   - Parse on bounded markup                                 *)
(*   SpecFlatten - flattenKeys on bounded generic mappings                 *)
(***************************************************************************)
EXTENDS Integers, Sequences, FiniteSets, TLC

VARIABLES
    heap,       \* the storage cells that Config fields point to
    a, b,       \* SpecValue: the two input Configs (*Config, possibly nil)
    r,          \* SpecValue: the Config returned by Copy/Merge, then finalized
    op,         \* SpecValue: the last operation run
    arg,        \* SpecValue: which input Copy was called on
    panicked,   \* SpecValue: the call ended in a nil-pointer panic
    node,       \* SpecLoad: what the path given to FromPath is
    idx,        \* SpecLoad: number of directory entries the walk has visited
    acc,        \* SpecLoad: the accumulator c of the walk
    res,        \* SpecLoad: the *Config FromPath returns
    err,        \* SpecLoad: the error FromPath returns
    pc,         \* SpecLoad: position of FromPath
    src,        \* SpecParse: the markup given to Parse
    decoded,    \* SpecParse: the mapping hcl.Decode produced
    flat,       \* SpecParse: the mapping after both flattenKeys calls
    parsed,     \* SpecParse: the mapping handed to the binder
    warnings,   \* SpecParse: the keys a [WARN] line was logged for, in order
    cfg,        \* SpecParse: the Config that Parse returns
    perr,       \* SpecParse: the error that Parse returns
    pdone,      \* SpecParse: Parse has returned
    hist,       \* SpecFlatten: the mapping before and after each flattenKeys
    flatKeys    \* SpecFlatten: the key list given to flattenKeys

valueVars == <<a, b, r, op, arg, panicked>>
loadVars == <<node, idx, acc, res, err, pc>>
parseVars == <<src, decoded, flat, parsed, warnings, cfg, perr, pdone>>
flatVars == <<hist, flatKeys>>
vars == <<heap, valueVars, loadVars, parseVars, flatVars>>

(***************************************************************************)
(* Bounds of the model.                                                    *)
(***************************************************************************)
MaxPresent == 1     \* fields present in an input Config of SpecValue
MaxEntries == 2     \* entries of a directory given to FromPath
MaxItems == 3       \* top-level items of a markup given to Parse
MaxBlocks == 2      \* elements of a sequence-of-mappings given to flattenKeys
MaxFlatten == 2     \* successive flattenKeys calls on one mapping

(***************************************************************************)
(* The Config struct.  A *Config is nil, or a struct whose fields are      *)
(* pointers: 0 is the nil pointer, n > 0 the address of heap[n].           *)
(***************************************************************************)
FieldSeq ==
    << "Consul", "DestinationConsul", "Excludes", "KillSignal", "LogLevel",
       "MaxStale", "PidFile", "Prefixes", "ReloadSignal", "StatusDir",
       "Syslog", "Wait" >>

Fields == {FieldSeq[i] : i \in DOMAIN FieldSeq}

StanzaFields == {"Consul", "DestinationConsul", "Syslog", "Wait"}

ListFields == {"Excludes", "Prefixes"}

ScalarFields == Fields \ (StanzaFields \cup ListFields)

\* The mapstructure tag of each field: the key the binder fills it from.
Tag ==
    [f \in Fields |->
        CASE f = "Consul" -> "consul"
          [] f = "DestinationConsul" -> "consul"
          [] f = "Excludes" -> "exclude"
          [] f = "KillSignal" -> "kill_signal"
          [] f = "LogLevel" -> "log_level"
          [] f = "MaxStale" -> "max_stale"
          [] f = "PidFile" -> "pid_file"
          [] f = "Prefixes" -> "prefix"
          [] f = "ReloadSignal" -> "reload_signal"
          [] f = "StatusDir" -> "status_dir"
          [] f = "Syslog" -> "syslog"
          [] f = "Wait" -> "wait"]

NilConfig == [nil |-> TRUE, f |-> [x \in Fields |-> 0]]

ZeroConfig == [nil |-> FALSE, f |-> [x \in Fields |-> 0]]

(***************************************************************************)
(* Cell contents.  A scalar cell holds a string; a stanza cell holds the   *)
(* nested entity's settings, each present or Absent; a list cell holds a   *)
(* sequence.  NoField is what a nil field reads as.                        *)
(***************************************************************************)
Absent == "<absent>"

NoField == [k |-> "none", v |-> ""]

Scalar(s) == [k |-> "scalar", v |-> s]

Stanza(p, s) == [k |-> "stanza", v |-> [primary |-> p, secondary |-> s]]

List(q) == [k |-> "list", v |-> q]

\* What a Config reads as: each field's value, NoField for a nil pointer.
View(h, c) == [f \in Fields |-> IF c.f[f] = 0 THEN NoField ELSE h[c.f[f]]]

DefaultLogLevel == "WARN"

DefaultMaxStale == "2s"

DefaultReloadSignal == "SIGHUP"

DefaultKillSignal == "SIGINT"

DefaultStatusDir == "service/consul-replicate/statuses"

(***************************************************************************)
(* The nested entities' own operations (config.ConsulConfig,               *)
(* config.SyslogConfig, config.WaitConfig, ExcludeConfigs, PrefixConfigs). *)
(***************************************************************************)
\* x.Copy(): nil for nil, else a new cell with the same content.
NestedCopy(h, p) ==
    IF p = 0 THEN [h |-> h, p |-> 0]
    ELSE [h |-> Append(h, h[p]), p |-> Len(h) + 1]

\* Right-biased merge of two cells' contents: a stanza setting by setting,
\* a list replaced wholesale.
MergeContent(x, y) ==
    IF x.k = "stanza" /\ y.k = "stanza"
    THEN Stanza(IF y.v.primary # Absent THEN y.v.primary ELSE x.v.primary,
                IF y.v.secondary # Absent THEN y.v.secondary ELSE x.v.secondary)
    ELSE y

\* x.Merge(y): a new cell in every case but nil.Merge(nil).
NestedMerge(h, p, q) ==
    IF p = 0 THEN NestedCopy(h, q)
    ELSE IF q = 0 THEN NestedCopy(h, p)
    ELSE [h |-> Append(h, MergeContent(h[p], h[q])), p |-> Len(h) + 1]

\* Default...Config(): a new cell with nothing set.
NestedDefault(f) ==
    IF f \in StanzaFields THEN Stanza(Absent, Absent) ELSE List(<< >>)

\* x.Finalize(): every absent setting of the entity gets its default.
NestedFinalize(x) ==
    IF x.k = "stanza"
    THEN Stanza(IF x.v.primary = Absent THEN "default" ELSE x.v.primary,
                IF x.v.secondary = Absent THEN "default" ELSE x.v.secondary)
    ELSE x

(***************************************************************************)
(* Config.Copy                                                             *)
(***************************************************************************)
\* The fields Copy handles, in its order: "deep" is x.Copy() under a nil
\* check, "ptr" is the assignment o.F = c.F of the pointer.
CopySteps ==
    << <<"Consul", "deep">>, <<"Excludes", "deep">>, <<"KillSignal", "ptr">>,
       <<"LogLevel", "ptr">>, <<"MaxStale", "ptr">>, <<"PidFile", "ptr">>,
       <<"Prefixes", "deep">>, <<"ReloadSignal", "ptr">>,
       <<"StatusDir", "ptr">>, <<"Syslog", "deep">>, <<"Wait", "deep">> >>

RECURSIVE CopyFrom(_, _, _, _)
CopyFrom(h, c, o, i) ==
    IF i > Len(CopySteps) THEN [h |-> h, c |-> o, panic |-> FALSE]
    ELSE LET f == CopySteps[i][1]
             n == NestedCopy(h, c.f[f])
         IN  IF CopySteps[i][2] = "deep"
             THEN CopyFrom(n.h, c, [o EXCEPT !.f[f] = n.p], i + 1)
             ELSE CopyFrom(h, c, [o EXCEPT !.f[f] = c.f[f]], i + 1)

\* c.Copy().  Reading c.Consul through a nil c is a nil-pointer panic.
Copy(h, c) ==
    IF c.nil THEN [h |-> h, c |-> NilConfig, panic |-> TRUE]
    ELSE CopyFrom(h, c, ZeroConfig, 1)

(***************************************************************************)
(* Config.Merge                                                            *)
(***************************************************************************)
\* The fields Merge handles, in its order: "nested" is
\* r.F = r.F.Merge(o.F), "ptr" is r.F = o.F, both under o.F != nil.
MergeSteps ==
    << <<"Consul", "nested">>, <<"Excludes", "nested">>,
       <<"KillSignal", "ptr">>, <<"LogLevel", "ptr">>, <<"MaxStale", "ptr">>,
       <<"PidFile", "ptr">>, <<"Prefixes", "nested">>,
       <<"ReloadSignal", "ptr">>, <<"StatusDir", "ptr">>,
       <<"Syslog", "nested">>, <<"Wait", "nested">> >>

RECURSIVE MergeFrom(_, _, _, _)
MergeFrom(h, rr, o, i) ==
    IF i > Len(MergeSteps) THEN [h |-> h, c |-> rr, panic |-> FALSE]
    ELSE LET f == MergeSteps[i][1]
             n == NestedMerge(h, rr.f[f], o.f[f])
         IN  IF o.f[f] = 0 THEN MergeFrom(h, rr, o, i + 1)
             ELSE IF MergeSteps[i][2] = "nested"
             THEN MergeFrom(n.h, [rr EXCEPT !.f[f] = n.p], o, i + 1)
             ELSE MergeFrom(h, [rr EXCEPT !.f[f] = o.f[f]], o, i + 1)

\* c.Merge(o)
Merge(h, c, o) ==
    IF c.nil
    THEN IF o.nil THEN [h |-> h, c |-> NilConfig, panic |-> FALSE]
         ELSE Copy(h, o)
    ELSE IF o.nil THEN Copy(h, c)
    ELSE LET r0 == Copy(h, c) IN MergeFrom(r0.h, r0.c, o, 1)

(***************************************************************************)
(* Config.Finalize                                                         *)
(***************************************************************************)
EnvValues == {"", "DEBUG", " DEBUG "}

Envs == [{"CR_LOG", "CONSUL_REPLICATE_LOG"} -> EnvValues]

TrimSpace(s) == IF s = " DEBUG " THEN "DEBUG" ELSE s

\* stringFromEnv(list, def): the first variable of the list that is set.
stringFromEnv(env, list, def) ==
    LET set == {i \in DOMAIN list : env[list[i]] # ""}
    IN  IF set = {} THEN def
        ELSE TrimSpace(env[list[CHOOSE i \in set : \A j \in set : i <= j]])

\* The fields Finalize handles, in its order: "nested" defaults a nil field
\* and then finalizes the entity in place, "scalar" defaults a nil field.
FinalizeSteps ==
    << <<"Consul", "nested">>, <<"Excludes", "nested">>,
       <<"KillSignal", "scalar">>, <<"LogLevel", "scalar">>,
       <<"MaxStale", "scalar">>, <<"Prefixes", "nested">>,
       <<"PidFile", "scalar">>, <<"ReloadSignal", "scalar">>,
       <<"StatusDir", "scalar">>, <<"Syslog", "nested">>,
       <<"Wait", "nested">> >>

ScalarDefault(f, env) ==
    CASE f = "KillSignal" -> DefaultKillSignal
      [] f = "LogLevel" ->
            stringFromEnv(env, <<"CR_LOG", "CONSUL_REPLICATE_LOG">>, DefaultLogLevel)
      [] f = "MaxStale" -> DefaultMaxStale
      [] f = "PidFile" -> ""
      [] f = "ReloadSignal" -> DefaultReloadSignal
      [] f = "StatusDir" -> DefaultStatusDir

RECURSIVE FinalizeFrom(_, _, _, _)
FinalizeFrom(h, c, env, i) ==
    IF i > Len(FinalizeSteps) THEN [h |-> h, c |-> c]
    ELSE LET f == FinalizeSteps[i][1]
             fresh == c.f[f] = 0
             p == IF fresh THEN Len(h) + 1 ELSE c.f[f]
             c1 == [c EXCEPT !.f[f] = p]
         IN  IF FinalizeSteps[i][2] = "nested"
             THEN LET h1 == IF fresh THEN Append(h, NestedDefault(f)) ELSE h
                  IN  FinalizeFrom([h1 EXCEPT ![p] = NestedFinalize(@)], c1, env, i + 1)
             ELSE FinalizeFrom(IF fresh THEN Append(h, Scalar(ScalarDefault(f, env))) ELSE h,
                               c1, env, i + 1)

\* c.Finalize(), in place
Finalize(h, c, env) ==
    IF c.nil THEN [h |-> h, c |-> c] ELSE FinalizeFrom(h, c, env, 1)

(***************************************************************************)
(* Input Configs: a Config built field by field, every present field in a  *)
(* cell of its own.                                                        *)
(***************************************************************************)
RECURSIVE AllocFrom(_, _, _, _)
AllocFrom(h, vc, c, i) ==
    IF i > Len(FieldSeq) THEN [h |-> h, c |-> c]
    ELSE LET f == FieldSeq[i]
         IN  IF vc[f].k = "none" THEN AllocFrom(h, vc, c, i + 1)
             ELSE AllocFrom(Append(h, vc[f]), vc, [c EXCEPT !.f[f] = Len(h) + 1], i + 1)

\* &Config{...} holding the values vc
Alloc(h, vc) == AllocFrom(h, vc, ZeroConfig, 1)

StanzaValues(t) == {Stanza(t, Absent), Stanza(Absent, t), Stanza(t, t)}

FieldValues(f, t) ==
    IF f \in StanzaFields THEN StanzaValues(t)
    ELSE IF f \in ListFields THEN {List(<<t>>)}
    ELSE {Scalar(t)}

SmallSubsets == {S \in SUBSET Fields : Cardinality(S) <= MaxPresent}

\* The Config values with at most MaxPresent fields present, all set from t.
ValueConfigs(t) ==
    UNION { { [f \in Fields |-> IF f \in S THEN IF f \in StanzaFields THEN sh[f]
                                                ELSE CHOOSE x \in FieldValues(f, t) : TRUE
                                ELSE NoField]
              : sh \in [S \cap StanzaFields -> StanzaValues(t)] }
            : S \in SmallSubsets }

\* The variables of the other specifications stay at these values.
IdleValue ==
    /\ a = NilConfig /\ b = NilConfig /\ r = NilConfig
    /\ op = "idle" /\ arg = "none" /\ panicked = FALSE

IdleLoad ==
    /\ node = [kind |-> "none", entries |-> << >>]
    /\ idx = 0 /\ acc = NilConfig /\ res = NilConfig
    /\ err = "" /\ pc = "idle"

IdleParse ==
    /\ src = [syntax |-> "none", items |-> << >>]
    /\ decoded = << >> /\ flat = << >> /\ parsed = << >>
    /\ warnings = << >> /\ cfg = [nil |-> TRUE, f |-> << >>]
    /\ perr = [kind |-> "none", keys |-> {}] /\ pdone = FALSE

IdleFlatten == hist = << >> /\ flatKeys = {}

InitValue ==
    /\ \E na \in BOOLEAN, nb \in BOOLEAN, va \in ValueConfigs("a"), vb \in ValueConfigs("b") :
          LET ia == Alloc(<< >>, va)
              ib == Alloc(ia.h, vb)
          IN  /\ na => va = [f \in Fields |-> NoField]
              /\ nb => vb = [f \in Fields |-> NoField]
              /\ a = IF na THEN NilConfig ELSE ia.c
              /\ b = IF nb THEN NilConfig ELSE ib.c
              /\ heap = ib.h
    /\ r = NilConfig
    /\ op = "init"
    /\ arg = "none"
    /\ panicked = FALSE
    /\ IdleLoad /\ IdleParse /\ IdleFlatten

\* r := x.Copy() for an input x
CopyOp ==
    /\ op = "init"
    /\ \E which \in {"a", "b"} :
          LET out == Copy(heap, IF which = "a" THEN a ELSE b)
          IN  /\ r' = out.c
              /\ heap' = out.h
              /\ panicked' = out.panic
              /\ arg' = which
    /\ op' = "copy"
    /\ UNCHANGED <<a, b, loadVars, parseVars, flatVars>>

\* r := a.Merge(b)
MergeOp ==
    /\ op = "init"
    /\ LET out == Merge(heap, a, b)
       IN  /\ r' = out.c
           /\ heap' = out.h
           /\ panicked' = out.panic
    /\ op' = "merge"
    /\ UNCHANGED <<a, b, arg, loadVars, parseVars, flatVars>>

\* r.Finalize()
FinalizeOp ==
    /\ op \in {"copy", "merge"}
    /\ ~panicked
    /\ \E env \in Envs :
          LET out == Finalize(heap, r, env)
          IN  /\ r' = out.c
              /\ heap' = out.h
    /\ op' = "finalize"
    /\ UNCHANGED <<a, b, arg, panicked, loadVars, parseVars, flatVars>>

NextValue == CopyOp \/ MergeOp \/ FinalizeOp

SpecValue == InitValue /\ [][NextValue]_vars

(***************************************************************************)
(* Properties of the value model (specification SpecValue).                *)
(***************************************************************************)
Same(x, y) == x.k = y.k /\ x.v = y.v

\* The setting-by-setting right-biased merge of two stanza values.
RightBiasedStanza(x, y) ==
    Stanza(IF y.v.primary = Absent THEN x.v.primary ELSE y.v.primary,
           IF y.v.secondary = Absent THEN x.v.secondary ELSE y.v.secondary)

\* C1: a.Merge(b) of two non-nil Configs is right-biased over every field of
\* Config: a field present in b reads as b's value in the result (merged
\* setting by setting with a's for a nested stanza), a field absent in b
\* reads as a's value.
C1_MergeRightBiasedEveryField ==
    (op = "merge" /\ ~a.nil /\ ~b.nil) =>
        /\ ~r.nil
        /\ \A f \in Fields :
              LET va == View(heap, a)[f]
                  vb == View(heap, b)[f]
                  vr == View(heap, r)[f]
              IN  IF vb.k = "none" THEN Same(vr, va)
                  ELSE IF vb.k = "stanza" /\ va.k = "stanza"
                  THEN Same(vr, RightBiasedStanza(va, vb))
                  ELSE Same(vr, vb)

\* C2: after Finalize() returns on a non-nil Config no field of the Config
\* is absent.
C2_FinalizeLeavesNoFieldAbsent ==
    (op = "finalize" /\ ~r.nil) => \A f \in Fields : r.f[f] # 0

\* C3: Copy returns an independent deep copy: the copy reads field for field
\* as the receiver, and no storage cell is shared between the two.
C3_CopyIsIndependentDeepCopy ==
    (op = "copy" /\ ~panicked) =>
        LET c == IF arg = "a" THEN a ELSE b
        IN  /\ \A f \in Fields : Same(View(heap, r)[f], View(heap, c)[f])
            /\ \A f \in Fields : c.f[f] # 0 => r.f[f] # c.f[f]

\* C8: Copy on a nil receiver returns nil, without failing.
C8_CopyOfNilReturnsNil ==
    (op = "copy" /\ (IF arg = "a" THEN a ELSE b).nil) => (~panicked /\ r.nil)

(***************************************************************************)
(* FromFile and FromPath                                                   *)
(***************************************************************************)
\* The settings a configuration file of the model may hold.
FileSettings == {"log_level", "pid_file", "consul.address", "consul.token"}

\* The top-level key of a setting.
TopKey(s) == IF s \in {"consul.address", "consul.token"} THEN "consul" ELSE s

\* The Config that Parse binds from the i-th file, holding the settings S:
\* every field whose tag is a key of the file is filled from that key.
FileConfig(S, i) ==
    LET t == IF i = 1 THEN "INFO" ELSE IF i = 2 THEN "DEBUG" ELSE "TRACE"
        keys == {TopKey(s) : s \in S}
    IN  [f \in Fields |->
            IF Tag[f] \notin keys THEN NoField
            ELSE IF f \in StanzaFields
            THEN Stanza(IF "consul.address" \in S THEN t ELSE Absent,
                        IF "consul.token" \in S THEN t ELSE Absent)
            ELSE Scalar(t)]

\* A directory entry as the walk meets it: a sub-directory, a file that
\* parses, a file FromFile fails on, or an entry the walk reports an error
\* for.
Entries ==
    [kind : {"file"}, set : SUBSET FileSettings]
        \cup [kind : {"dir", "bad", "walkerr"}, set : {{}}]

Nodes ==
    [kind : {"missing", "staterr", "listerr", "other"}, entries : {<< >>}]
        \cup [kind : {"file"},
              entries : {<<e>> : e \in {x \in Entries : x.kind \in {"file", "bad"}}}]
        \cup [kind : {"dir"},
              entries : UNION {[1..n -> Entries] : n \in 0..MaxEntries}]

\* FromFile(path) on the i-th entry: (config, nil) or (nil, error).
FromFile(h, e, i) ==
    IF e.kind = "file"
    THEN LET n == Alloc(h, FileConfig(e.set, i))
         IN  [h |-> n.h, c |-> n.c, err |-> ""]
    ELSE [h |-> h, c |-> NilConfig, err |-> "from file"]

InitLoad ==
    /\ node \in Nodes
    /\ idx = 0
    /\ acc = NilConfig
    /\ res = NilConfig
    /\ err = ""
    /\ pc = "start"
    /\ heap = << >>
    /\ IdleValue /\ IdleParse /\ IdleFlatten

\* FromPath up to the walk: the stat checks, the single-file load, ReadDir.
Start ==
    /\ pc = "start"
    /\ idx' = 0
    /\ acc' = NilConfig
    /\ CASE node.kind = "missing" ->
               /\ res' = NilConfig /\ err' = "missing file/folder"
               /\ pc' = "done" /\ heap' = heap
         [] node.kind = "staterr" ->
               /\ res' = NilConfig /\ err' = "failed stating file"
               /\ pc' = "done" /\ heap' = heap
         [] node.kind = "listerr" ->
               /\ res' = NilConfig /\ err' = "failed listing dir"
               /\ pc' = "done" /\ heap' = heap
         [] node.kind = "dir" ->
               /\ res' = NilConfig /\ err' = ""
               /\ pc' = "walk" /\ heap' = heap
         [] node.kind = "file" ->
               LET out == FromFile(heap, node.entries[1], 1)
               IN  /\ res' = out.c /\ err' = out.err
                   /\ pc' = "done" /\ heap' = out.h
         [] node.kind = "other" ->
               /\ res' = NilConfig /\ err' = "unknown filetype"
               /\ pc' = "done" /\ heap' = heap
    /\ UNCHANGED <<node, valueVars, parseVars, flatVars>>

\* The walk function on the next entry.  A non-nil return ends the walk and
\* FromPath returns nil and the wrapped error.
Visit ==
    /\ pc = "walk"
    /\ idx < Len(node.entries)
    /\ LET e == node.entries[idx + 1]
           new == FromFile(heap, e, idx + 1)
           m == Merge(new.h, acc, new.c)
       IN  CASE e.kind = "walkerr" ->
                  /\ res' = NilConfig /\ err' = "walk error"
                  /\ pc' = "done" /\ UNCHANGED <<acc, heap>>
            [] e.kind = "dir" ->
                  UNCHANGED <<acc, heap, res, err, pc>>
            [] e.kind = "bad" ->
                  /\ res' = NilConfig /\ err' = "walk error"
                  /\ pc' = "done" /\ UNCHANGED <<acc, heap>>
            [] e.kind = "file" ->
                  /\ acc' = m.c /\ heap' = m.h
                  /\ UNCHANGED <<res, err, pc>>
    /\ idx' = idx + 1
    /\ UNCHANGED <<node, valueVars, parseVars, flatVars>>

\* The walk is over without error: return c, nil.
Finish ==
    /\ pc = "walk"
    /\ idx = Len(node.entries)
    /\ res' = acc
    /\ err' = ""
    /\ pc' = "done"
    /\ UNCHANGED <<heap, node, idx, acc, valueVars, parseVars, flatVars>>

NextLoad == Start \/ Visit \/ Finish

SpecLoad == InitLoad /\ [][NextLoad]_vars

(***************************************************************************)
(* Properties of FromPath (specification SpecLoad).                        *)
(***************************************************************************)
\* The files the walk has parsed and merged so far.
Visited == {i \in 1..idx : node.entries[i].kind = "file"}

Latest(S) == CHOOSE i \in S : \A j \in S : j <= i

\* What the i-th file gives for field f.
Given(i, f) == FileConfig(node.entries[i].set, i)[f]

\* C4: loading a directory folds the files left to right: after each file
\* is visited, every field of the accumulator (every setting, for a nested
\* stanza) reads as the most recently visited file that set it gave it, and
\* what only earlier files set is retained.
C4_FoldLatestFileWins ==
    (node.kind = "dir" /\ pc = "walk") =>
        \A f \in Fields :
            LET setters == {i \in Visited : Given(i, f).k # "none"}
                prim == {i \in setters : Given(i, f).v.primary # Absent}
                sec == {i \in setters : Given(i, f).v.secondary # Absent}
                got == View(heap, acc)[f]
            IN  IF setters = {} THEN got.k = "none"
                ELSE IF f \in StanzaFields
                THEN Same(got,
                          Stanza(IF prim = {} THEN Absent
                                 ELSE Given(Latest(prim), f).v.primary,
                                 IF sec = {} THEN Absent
                                 ELSE Given(Latest(sec), f).v.secondary))
                ELSE Same(got, Given(Latest(setters), f))

\* C5: every call to FromPath ends with a non-nil Config and no error, or
\* with a nil Config and an error.
C5_ConfigOrErrorNeverBothNeverNeither ==
    pc = "done" => ((~res.nil /\ err = "") \/ (res.nil /\ err # ""))

(***************************************************************************)
(* The generic tree hcl.Decode produces: a mapping from keys to values,    *)
(* each a string, a mapping, a sequence of mappings                        *)
(* ([]map[string]interface{}), a list of scalars or nil.  A value is a     *)
(* record tagged t, holding the string in s, the mapping in m, the         *)
(* sequence of mappings in q or the list in l.                             *)
(***************************************************************************)
GS(s) == [t |-> "str", s |-> s, m |-> << >>, q |-> << >>, l |-> << >>]

GM(m) == [t |-> "map", s |-> "", m |-> m, q |-> << >>, l |-> << >>]

GQ(q) == [t |-> "seq", s |-> "", m |-> << >>, q |-> q, l |-> << >>]

GL(l) == [t |-> "list", s |-> "", m |-> << >>, q |-> << >>, l |-> l]

GNil == [t |-> "nil", s |-> "", m |-> << >>, q |-> << >>, l |-> << >>]

EmptyMap == << >>

Has(m, k) == k \in DOMAIN m

\* m[k] = x
With(m, k, x) == [y \in DOMAIN m \cup {k} |-> IF y = k THEN x ELSE m[y]]

\* delete(m, k)
Without(m, k) == [y \in DOMAIN m \ {k} |-> m[y]]

(***************************************************************************)
(* Markup: a sequence of items, each an assignment key = "string" or a     *)
(* block key { items }.                                                    *)
(***************************************************************************)
Assign(k, s) == [key |-> k, block |-> FALSE, str |-> s, body |-> << >>]

Block(k, body) == [key |-> k, block |-> TRUE, str |-> "", body |-> body]

\* hcl.Decode into interface{}: an assignment decodes to its string, the
\* blocks of one key to the sequence of their mappings, in source order,
\* also when the block is written once.
RECURSIVE DecodeItems(_)
DecodeItems(items) ==
    [k \in {items[i].key : i \in DOMAIN items} |->
        LET its == SelectSeq(items, LAMBDA it : it.key = k)
        IN  IF its[1].block
            THEN GQ([i \in DOMAIN its |-> DecodeItems(its[i].body)])
            ELSE GS(its[1].str)]

(***************************************************************************)
(* flattenKeys                                                             *)
(***************************************************************************)
\* The map key of k under parent.
DotKey(parent, k) == IF parent = "" THEN k ELSE parent \o "." \o k

FirstBlock(typed) == typed[1]

\* last := typed[len(typed)-1]
PickBlock(typed) == typed[Len(typed)]

RECURSIVE flatten(_, _, _)
flatten(m, parent, keyMap) ==
    [k \in DOMAIN m |->
        LET mapKey == DotKey(parent, k)
            v == m[k]
        IN  IF mapKey \notin keyMap THEN v
            ELSE CASE v.t = "seq" ->
                        IF Len(v.q) > 0
                        THEN GM(flatten(PickBlock(v.q), mapKey, keyMap))
                        ELSE GNil
                   [] v.t = "map" -> GM(flatten(v.m, mapKey, keyMap))
                   [] OTHER -> v]

flattenKeys(m, keys) == flatten(m, "", {keys[i] : i \in DOMAIN keys})

ParseKeysWithPrefix ==
    << "consul", "consul.auth", "consul.retry", "consul.ssl",
       "consul.transport", "syslog", "wait", "prefix" >>

\* The keys of Parse's first flattenKeys call.
ParseKeys ==
    << "consul", "consul.auth", "consul.retry", "consul.ssl",
       "consul.transport", "syslog", "wait" >>

\* The keys of Parse's second flattenKeys call.
DeprecatedKeys == << "auth", "ssl" >>

(***************************************************************************)
(* Parse: the deprecations.  st.m is the mapping, st.w the warnings        *)
(* logged so far.                                                          *)
(***************************************************************************)
\* consul, ok := parsed["consul"].(map[string]interface{}); a new empty map
\* when not ok
ConsulOf(m) ==
    IF Has(m, "consul") /\ m["consul"].t = "map" THEN m["consul"].m
    ELSE EmptyMap

\* consul[k] = x; parsed["consul"] = consul; delete(parsed, old)
Moved(st, old, k, x) ==
    [m |-> Without(With(st.m, "consul", GM(With(ConsulOf(st.m), k, x))), old),
     w |-> Append(st.w, old)]

PromoteAuth(st) ==
    IF Has(st.m, "auth") THEN Moved(st, "auth", "auth", st.m["auth"]) ELSE st

DropPath(st) ==
    IF Has(st.m, "path")
    THEN [m |-> Without(st.m, "path"), w |-> Append(st.w, "path")]
    ELSE st

PromoteRetryBackoffOnly(st) ==
    IF Has(st.m, "retry")
    THEN Moved(st, "retry", "retry",
               GM([k \in {"backoff"} |-> st.m["retry"]]))
    ELSE st

PromoteRetry(st) ==
    IF Has(st.m, "retry")
    THEN Moved(st, "retry", "retry",
               GM([k \in {"backoff", "max_backoff"} |-> st.m["retry"]]))
    ELSE st

PromoteSsl(st) ==
    IF Has(st.m, "ssl") THEN Moved(st, "ssl", "ssl", st.m["ssl"]) ELSE st

PromoteToken(st) ==
    IF Has(st.m, "token") THEN Moved(st, "token", "token", st.m["token"]) ELSE st

Promote(m) ==
    PromoteToken(PromoteSsl(PromoteRetry(DropPath(PromoteAuth(
        [m |-> m, w |-> << >>])))))

(***************************************************************************)
(* Parse: the binder (mapstructure with ErrorUnused and the decode hooks). *)
(***************************************************************************)
KnownKeys == {Tag[f] : f \in Fields}

\* The settings of the connection stanza and those that are stanzas.
ConsulKeys == {"address", "token", "auth", "retry", "ssl", "transport"}

ConsulStanzaKeys == {"auth", "retry", "ssl", "transport"}

PrefixKeys == {"source", "destination"}

\* A mapping binds to a prefix job when it holds only string settings of a
\* prefix job.
PrefixMapOK(m) ==
    /\ DOMAIN m \subseteq PrefixKeys
    /\ \A k \in DOMAIN m : m[k].t = "str"

\* MapToPrefixConfigFunc
MapToPrefixConfig(m) ==
    [source |-> IF Has(m, "source") THEN m["source"].s ELSE Absent,
     destination |-> IF Has(m, "destination") THEN m["destination"].s ELSE Absent]

\* StringToPrefixConfigFunc: the string is the source, with no destination.
StringToPrefixConfig(s) == [source |-> s, destination |-> Absent]

\* The value under key k has the shape of the field it binds to.  A struct
\* binds from a mapping, never from a sequence of mappings; a slice binds
\* from a sequence, never from a mapping.
BindOK(k, v) ==
    CASE k = "consul" ->
            \/ v.t \in {"str", "nil"}
            \/ /\ v.t = "map"
               /\ DOMAIN v.m \subseteq ConsulKeys
               /\ \A x \in DOMAIN v.m :
                     IF x \in ConsulStanzaKeys THEN v.m[x].t \in {"map", "nil"}
                     ELSE v.m[x].t \in {"str", "nil"}
      [] k \in {"prefix", "exclude"} ->
            \/ v.t \in {"str", "nil"}
            \/ v.t = "seq" /\ \A i \in DOMAIN v.q : PrefixMapOK(v.q[i])
      [] k = "syslog" -> v.t \in {"map", "nil"}
      [] k = "wait" -> v.t \in {"map", "str", "nil"}
      [] OTHER -> v.t \in {"str", "nil"}

\* The typed value the field is set to.
BindValue(k, v) ==
    CASE v.t = "nil" -> GNil
      [] k = "consul" /\ v.t = "str" -> GM([x \in {"address"} |-> v])
      [] k \in {"prefix", "exclude"} /\ v.t = "seq" ->
            GQ([i \in DOMAIN v.q |-> MapToPrefixConfig(v.q[i])])
      [] k \in {"prefix", "exclude"} /\ v.t = "str" ->
            GQ(<<StringToPrefixConfig(v.s)>>)
      [] OTHER -> v

NoError == [kind |-> "none", keys |-> {}]

NoConfig == [nil |-> TRUE, f |-> << >>]

\* decoder.Decode(parsed): every key must be a field's tag (ErrorUnused) and
\* every value must convert; each field is filled from the key of its tag.
Bind(m) ==
    LET unused == DOMAIN m \ KnownKeys
        bad == {k \in DOMAIN m \cap KnownKeys : ~BindOK(k, m[k])}
    IN  IF unused \cup bad # {}
        THEN [cfg |-> NoConfig, err |-> [kind |-> "bind", keys |-> unused \cup bad]]
        ELSE [cfg |-> [nil |-> FALSE,
                       f |-> [f \in Fields |->
                                IF Has(m, Tag[f]) THEN BindValue(Tag[f], m[Tag[f]])
                                ELSE GNil]],
              err |-> NoError]

\* Parse(s), with what it computes on the way.
ParseOut(s) ==
    IF s.syntax = "bad"
    THEN [decoded |-> EmptyMap, flat |-> EmptyMap, parsed |-> EmptyMap,
          w |-> << >>, cfg |-> NoConfig,
          err |-> [kind |-> "decode", keys |-> {}]]
    ELSE LET d == DecodeItems(s.items)
             fl == flattenKeys(flattenKeys(d, ParseKeys), DeprecatedKeys)
             p == Promote(fl)
             bound == Bind(p.m)
         IN  [decoded |-> d, flat |-> fl, parsed |-> p.m, w |-> p.w,
              cfg |-> bound.cfg, err |-> bound.err]

(***************************************************************************)
(* The markups given to Parse.                                             *)
(***************************************************************************)
UserBody(u) == << Assign("username", u) >>

ConsulBodies ==
    { << Assign("address", "c1") >>,
      << Assign("address", "c2"), Assign("token", "t2") >>,
      << Assign("address", "c1"), Block("auth", UserBody("u1")),
         Block("auth", UserBody("u2")) >> }

PrefixBlocks ==
    { Block("prefix", << Assign("source", "s1") >>),
      Block("prefix", << Assign("source", "s2"), Assign("destination", "d2") >>) }

TopItems ==
    {Assign("consul", "c0")}
        \cup {Block("consul", bd) : bd \in ConsulBodies}
        \cup PrefixBlocks
        \cup { Block("auth", UserBody("la")), Block("auth", UserBody("lb")),
               Block("ssl", << Assign("enabled", "true") >>),
               Assign("retry", "5s"), Block("retry", << Assign("attempts", "5") >>),
               Assign("token", "abc"),
               Assign("path", "/etc/replicate"),
               Assign("log_level", "INFO"), Assign("bogus", "1") }

\* A key is assigned once, or written as blocks only.
WellFormed(items) ==
    \A i, j \in DOMAIN items :
        (i # j /\ items[i].key = items[j].key) =>
            (items[i].block /\ items[j].block)

Markups ==
    {[syntax |-> "bad", items |-> << >>]}
        \cup {[syntax |-> "ok", items |-> q] :
                q \in {x \in UNION {[1..n -> TopItems] : n \in 0..MaxItems} :
                          WellFormed(x)}}

InitParse ==
    /\ src \in Markups
    /\ decoded = << >>
    /\ flat = << >>
    /\ parsed = << >>
    /\ warnings = << >>
    /\ cfg = NoConfig
    /\ perr = NoError
    /\ pdone = FALSE
    /\ heap = << >>
    /\ IdleValue /\ IdleLoad /\ IdleFlatten

\* c, err := Parse(src)
ParseStep ==
    /\ ~pdone
    /\ LET out == ParseOut(src)
       IN  /\ decoded' = out.decoded
           /\ flat' = out.flat
           /\ parsed' = out.parsed
           /\ warnings' = out.w
           /\ cfg' = out.cfg
           /\ perr' = out.err
    /\ pdone' = TRUE
    /\ UNCHANGED <<heap, src, valueVars, loadVars, flatVars>>

NextParse == ParseStep

SpecParse == InitParse /\ [][NextParse]_vars

(***************************************************************************)
(* Properties of Parse (specification SpecParse).                          *)
(***************************************************************************)
Count(seq, x) == Cardinality({i \in DOMAIN seq : seq[i] = x})

LegacyKeys == {"auth", "retry", "ssl", "token"}

\* What the promotion of legacy key k is to leave at its modern key: the
\* legacy value, the last block of a legacy stanza, and for retry a stanza
\* holding the legacy value twice.
LegacyValue(k) ==
    LET v == decoded[k]
        last == IF v.t = "seq" /\ Len(v.q) > 0 THEN GM(v.q[Len(v.q)]) ELSE v
    IN  IF k = "retry"
        THEN GM([x \in {"backoff", "max_backoff"} |-> v])
        ELSE last

\* C6: for each deprecated top-level key that is present (auth, retry, ssl,
\* token) exactly one warning is logged for it, the key is gone from the
\* mapping handed to the binder, and its value is under consul at its modern
\* key (for retry as both backoff and max_backoff); a key that is not
\* present logs nothing; a top-level path key is removed with one warning
\* and is never a key the binder fails on; and when Parse succeeds a legacy
\* token is the token of the Config's consul stanza.
C6_LegacyKeysPromoted ==
    (pdone /\ perr.kind # "decode") =>
        /\ \A k \in LegacyKeys :
              IF Has(decoded, k)
              THEN /\ Count(warnings, k) = 1
                   /\ ~Has(parsed, k)
                   /\ Has(parsed, "consul")
                   /\ parsed["consul"].t = "map"
                   /\ Has(parsed["consul"].m, k)
                   /\ parsed["consul"].m[k] = LegacyValue(k)
              ELSE Count(warnings, k) = 0
        /\ IF Has(decoded, "path")
           THEN /\ Count(warnings, "path") = 1
                /\ ~Has(parsed, "path")
                /\ "path" \notin perr.keys
           ELSE Count(warnings, "path") = 0
        /\ (perr.kind = "none" /\ Has(decoded, "token")) =>
              /\ cfg.f["Consul"].t = "map"
              /\ Has(cfg.f["Consul"].m, "token")
              /\ cfg.f["Consul"].m["token"] = decoded["token"]

\* Parse has succeeded on a markup with token = "abc", a retry and an auth
\* block, and the Config's consul token is "abc".
C6_Witness ==
    /\ pdone
    /\ perr.kind = "none"
    /\ Has(decoded, "token") /\ Has(decoded, "retry") /\ Has(decoded, "auth")
    /\ decoded["token"] = GS("abc")
    /\ ~Has(parsed, "token")
    /\ cfg.f["Consul"].m["token"] = GS("abc")
    /\ Count(warnings, "token") = 1

\* The prefix blocks of the markup, in source order.
PrefixItems == SelectSeq(src.items, LAMBDA it : it.key = "prefix")

\* The string the block's body assigns to k, if any.
Setting(body, k) ==
    IF \E i \in DOMAIN body : body[i].key = k
    THEN body[CHOOSE i \in DOMAIN body : body[i].key = k].str
    ELSE Absent

\* The prefix job a prefix block declares.
Declared(blk) ==
    [source |-> Setting(blk.body, "source"),
     destination |-> Setting(blk.body, "destination")]

OnlyPrefixBlocks ==
    /\ src.syntax = "ok"
    /\ Len(src.items) >= 1
    /\ \A i \in DOMAIN src.items : src.items[i].key = "prefix"

\* C7 as stated: a markup of one prefix block parses to one prefix entry
\* matching it, and a markup of two prefix blocks parses to a Config holding
\* only the last block's values.
C7_RepeatedPrefixKeepsLastOnly ==
    (pdone /\ OnlyPrefixBlocks /\ Len(src.items) <= 2) =>
        /\ perr.kind = "none"
        /\ cfg.f["Prefixes"] = GQ(<<Declared(src.items[Len(src.items)])>>)

\* C7 as amended: a markup made of prefix blocks parses without error, and
\* whenever Parse succeeds on a markup with prefix blocks the Config's
\* prefixes hold one entry per block, matching the block, in source order
\* (one entry for one block, two entries for a block written twice).
C7_PrefixBlocksAccumulate ==
    /\ (pdone /\ OnlyPrefixBlocks) => perr.kind = "none"
    /\ (pdone /\ perr.kind = "none" /\ src.syntax = "ok" /\ Len(PrefixItems) >= 1) =>
          cfg.f["Prefixes"] =
              GQ([i \in DOMAIN PrefixItems |-> Declared(PrefixItems[i])])

\* Parse has succeeded on a markup of two prefix blocks and the Config has
\* two prefix entries.
C7_Witness ==
    /\ pdone
    /\ perr.kind = "none"
    /\ OnlyPrefixBlocks
    /\ Len(src.items) = 2
    /\ cfg.f["Prefixes"].t = "seq"
    /\ Len(cfg.f["Prefixes"].q) = 2
    /\ cfg.f["Prefixes"].q[2] = [source |-> "s2", destination |-> "d2"]

\* C10: when the source declares a consul stanza (a mapping, repeated
\* blocks, or the string shorthand for the address) and deprecated
\* top-level keys, every consul setting other than the promoted keys is
\* still in the mapping handed to the binder, with the same value.
C10_PromotionKeepsConsulSettings ==
    (pdone /\ src.syntax = "ok" /\ Has(decoded, "consul")
        /\ LegacyKeys \cap DOMAIN decoded # {}) =>
        LET before == flat["consul"]
            after == parsed["consul"]
        IN  CASE before.t = "map" ->
                    /\ after.t = "map"
                    /\ \A k \in DOMAIN before.m \ (LegacyKeys \cap DOMAIN decoded) :
                          Has(after.m, k) /\ after.m[k] = before.m[k]
              [] before.t = "str" ->
                    \/ after.t = "str" /\ after.s = before.s
                    \/ /\ after.t = "map"
                       /\ Has(after.m, "address")
                       /\ after.m["address"] = before
              [] OTHER -> TRUE

(***************************************************************************)
(* flattenKeys on generic mappings.                                        *)
(***************************************************************************)
\* The mapping holding the given <<key, value>> pairs.
MapOf(pairs) ==
    [k \in {pr[1] : pr \in pairs} |-> (CHOOSE pr \in pairs : pr[1] = k)[2]]

\* Key k absent, or present with a value of V.
Opt(k, V) == {{}} \cup {{<<k, v>>} : v \in V}

BlockSeqs(S) == UNION {[1..n -> S] : n \in 0..MaxBlocks}

Leaf(k, s) == [x \in {k} |-> GS(s)]

Leaves == {Leaf("username", "u1"), Leaf("username", "u2")}

InnerValues ==
    {GS("x"), GM(Leaf("username", "u1"))} \cup {GQ(q) : q \in BlockSeqs(Leaves)}

ConsulMaps ==
    {MapOf(x \cup y) : x \in Opt("auth", InnerValues),
                       y \in Opt("address", {GS("c1")})}

ConsulBlocks ==
    { MapOf({<<"address", GS("c1")>>}),
      MapOf({<<"auth", GQ(<<Leaf("username", "u1"), Leaf("username", "u2")>>)>>}),
      MapOf({<<"auth", GQ(<< >>)>>, <<"address", GS("c2")>>}) }

ConsulValues ==
    {GS("c0"), GNil, GL(<<"c1", "c2">>)}
        \cup {GM(m) : m \in ConsulMaps}
        \cup {GQ(q) : q \in BlockSeqs(ConsulBlocks)}

GenericMaps ==
    {MapOf(x \cup y \cup z \cup u) :
        x \in Opt("consul", ConsulValues),
        y \in Opt("auth", InnerValues),
        z \in Opt("prefix", {GQ(<<Leaf("source", "s1"), Leaf("source", "s2")>>)}),
        u \in Opt("syslog", {GQ(<<Leaf("facility", "LOCAL0")>>), GQ(<< >>)})}

InitFlatten ==
    /\ \E m \in GenericMaps : hist = <<m>>
    /\ flatKeys \in {ParseKeys, DeprecatedKeys}
    /\ heap = << >>
    /\ IdleValue /\ IdleLoad /\ IdleParse

\* flattenKeys(m, flatKeys), on the mapping the last call left
FlattenStep ==
    /\ Len(hist) <= MaxFlatten
    /\ hist' = Append(hist, flattenKeys(hist[Len(hist)], flatKeys))
    /\ UNCHANGED <<heap, flatKeys, valueVars, loadVars, parseVars>>

NextFlatten == FlattenStep

SpecFlatten == InitFlatten /\ [][NextFlatten]_vars

(***************************************************************************)
(* Properties of flattenKeys (specification SpecFlatten).                  *)
(***************************************************************************)
Listed(path) == \E i \in DOMAIN flatKeys : flatKeys[i] = path

\* out is what the claim says flattening leaves of in, whose keys lie under
\* the dotted path parent.
RECURSIVE FlattenedFrom(_, _, _)
FlattenedFrom(in, out, parent) ==
    /\ DOMAIN out = DOMAIN in
    /\ \A k \in DOMAIN in :
          LET path == IF parent = "" THEN k ELSE parent \o "." \o k
              x == in[k]
              y == out[k]
          IN  IF ~Listed(path) THEN y = x
              ELSE CASE x.t = "seq" /\ Len(x.q) > 0 ->
                          y.t = "map" /\ FlattenedFrom(x.q[Len(x.q)], y.m, path)
                     [] x.t = "seq" /\ Len(x.q) = 0 -> y = GNil
                     [] x.t = "map" ->
                          y.t = "map" /\ FlattenedFrom(x.m, y.m, path)
                     [] OTHER -> y = x

\* C9: after flattenKeys every listed key (by its dotted path) whose value
\* was a non-empty sequence of mappings holds the sequence's last element,
\* itself flattened under that path; a listed key whose value was an empty
\* sequence is still a key and holds nil; a mapping under a listed key is
\* still a mapping, its own listed keys flattened; every other value and
\* every key outside the list is unchanged; and a further flattenKeys
\* changes nothing.
C9_FlattenLastBlockIdempotent ==
    Len(hist) >= 2 =>
        /\ FlattenedFrom(hist[1], hist[2], "")
        /\ \A i \in 2..(Len(hist) - 1) : hist[i + 1] = hist[i]

\* flattenKeys ran twice with Parse's key list on a mapping whose consul is
\* two blocks, the last holding two auth blocks, and whose syslog is an
\* empty sequence: consul.auth is the last auth block, syslog is nil, the
\* unlisted prefix is still a sequence.
C9_Witness ==
    /\ Len(hist) = 3
    /\ flatKeys = ParseKeys
    /\ Has(hist[1], "consul") /\ Has(hist[1], "syslog") /\ Has(hist[1], "prefix")
    /\ hist[1]["consul"].t = "seq"
    /\ Len(hist[1]["consul"].q) = 2
    /\ hist[1]["syslog"] = GQ(<< >>)
    /\ hist[2]["consul"].t = "map"
    /\ Has(hist[2]["consul"].m, "auth")
    /\ hist[2]["consul"].m["auth"] = GM(Leaf("username", "u2"))
    /\ hist[2]["syslog"] = GNil
    /\ hist[2]["prefix"].t = "seq"

====
